---- MODULE Spec2Model ----
(***************************************************************************)
(* A model of the schematic viewer's render session (renderer.ts) and of   *)
(* its archive resource loader (resourceLoader.ts).                        *)
(*                                                                         *)
(* JavaScript runs one task at a time: the code between two awaits is one  *)
(* atomic action, and every await is a point where another call, a frame   *)
(* of the render loop or destroy() may run.                                *)
(***************************************************************************)
EXTENDS Integers, Sequences, FiniteSets, TLC

\* ------------------------------------------------------------------ bounds
\* Number of swapSchematic calls issued on one session.
MaxSwaps == 2
\* Largest side of the grids the culling specification draws.
MaxDim == 3
\* Number of getResourceBlob / getResourceString calls issued on one loader.
MaxCalls == 3
\* Longest archive list the loader specification draws.
MaxArchives == 2

\* ------------------------------------------------------------------ blocks
\* A Block: a type and its properties, an object whose keys keep their
\* insertion order (a sequence of <<name, value>> pairs).
Blk(t, ps) == [type |-> t, properties |-> ps]

\* What getBlock returns where there is no block (undefined).
NoBlock == Blk("<undefined>", <<>>)

Stone == Blk("stone", <<>>)
Glass == Blk("glass", <<>>)
Air == Blk("air", <<>>)
\* A block type the archives have no model for (its model list is empty).
Unknown == Blk("mod_block", <<>>)
\* The same stairs block, its properties inserted in two orders.
StairsFH == Blk("oak_stairs", << <<"facing", "north">>, <<"half", "top">> >>)
StairsHF == Blk("oak_stairs", << <<"half", "top">>, <<"facing", "north">> >>)

INVISIBLE_BLOCKS == {"air"}
NON_OCCLUDING_BLOCKS == {"air", "glass", "oak_stairs"}
\* Block types whose resolved model list is empty.
NoModelTypes == {"mod_block"}

RECURSIVE JoinPairs(_)
\* The members of JSON.stringify(object), in insertion order.
JoinPairs(ps) ==
    IF ps = <<>> THEN ""
    ELSE "\"" \o ps[1][1] \o "\":\"" \o ps[1][2] \o "\""
         \o (IF Len(ps) > 1 THEN "," ELSE "") \o JoinPairs(Tail(ps))

JSONstringify(ps) == "{" \o JoinPairs(ps) \o "}"

hashBlockForMap(block) == block.type \o ":" \o JSONstringify(block.properties)

\* The property mapping of a block, whatever the insertion order.
PropMap(block) == {block.properties[i] : i \in DOMAIN block.properties}

\* getBlockModelData: the resolved model data of a block.
getBlockModelData(block) ==
    [models |-> IF block.type \in NoModelTypes THEN <<>>
                ELSE << [model |-> block.type, variant |-> PropMap(block)] >>]

\* -------------------------------------------------------------- structures
\* A loaded schematic: dimensions, the distinct block types, and the cells
\* (0: no block, i: blockTypes[i]) in iteration order, x fastest, then z,
\* then y.
Schem(w, h, l, types, cells) ==
    [width |-> w, height |-> h, length |-> l, blockTypes |-> types,
     blocks |-> cells]

Volume(s) == s.width * s.height * s.length

PosOf(s, i) ==
    [x |-> (i - 1) % s.width,
     z |-> ((i - 1) \div s.width) % s.length,
     y |-> (i - 1) \div (s.width * s.length)]

InBounds(s, p) ==
    /\ p.x >= 0 /\ p.x < s.width
    /\ p.y >= 0 /\ p.y < s.height
    /\ p.z >= 0 /\ p.z < s.length

IndexOf(s, p) == p.x + p.z * s.width + p.y * s.width * s.length + 1

getBlock(s, p) ==
    IF ~InBounds(s, p) THEN NoBlock
    ELSE IF s.blocks[IndexOf(s, p)] = 0 THEN NoBlock
    ELSE s.blockTypes[s.blocks[IndexOf(s, p)]]

\* faceToFacingVector over POSSIBLE_FACES.
FaceOffsets ==
    { <<0, 1, 0>>, <<0, -1, 0>>, <<0, 0, -1>>, <<0, 0, 1>>, <<1, 0, 0>>,
      <<-1, 0, 0>> }

\* A bug the face loop could have: the vertical faces are not examined.
anyVisibleSidesOnly(s, p) ==
    \E f \in {g \in FaceOffsets : g[2] = 0} :
        LET offBlock == getBlock(s, [x |-> p.x + f[1], y |-> p.y + f[2],
                                     z |-> p.z + f[3]])
        IN offBlock = NoBlock \/ offBlock.type \in NON_OCCLUDING_BLOCKS

\* The face loop of computeSchematicMesh: some neighbour does not occlude.
anyVisible(s, p) ==
    \E f \in FaceOffsets :
        LET offBlock == getBlock(s, [x |-> p.x + f[1], y |-> p.y + f[2],
                                     z |-> p.z + f[3]])
        IN offBlock = NoBlock \/ offBlock.type \in NON_OCCLUDING_BLOCKS

\* The voxel at index i reaches getModel in computeSchematicMesh.
NeedsModel(s, lookup, i) ==
    LET block == getBlock(s, PosOf(s, i))
    IN /\ block # NoBlock
       /\ block.type \notin INVISIBLE_BLOCKS
       /\ hashBlockForMap(block) \in DOMAIN lookup
       /\ anyVisible(s, PosOf(s, i))

\* The first voxel at or after index from that reaches getModel, or
\* Volume(s) + 1 when the iteration ends.
NextVoxel(s, lookup, from) ==
    LET rest == {i \in from..Volume(s) : NeedsModel(s, lookup, i)}
    IN IF rest = {} THEN Volume(s) + 1
       ELSE CHOOSE i \in rest : \A j \in rest : i <= j

\* The block type at index i is resolved by updateBlockModelLookup.
NeedsResolve(s, lookup, i) ==
    /\ s.blockTypes[i].type \notin INVISIBLE_BLOCKS
    /\ hashBlockForMap(s.blockTypes[i]) \notin DOMAIN lookup

\* The first block type at or after index from that is resolved, or
\* Len(blockTypes) + 1 when the loop ends.
NextType(s, lookup, from) ==
    LET rest == {i \in from..Len(s.blockTypes) : NeedsResolve(s, lookup, i)}
    IN IF rest = {} THEN Len(s.blockTypes) + 1
       ELSE CHOOSE i \in rest : \A j \in rest : i <= j

\* A bug blockModelLookup.set could have: the map is rebuilt from the new
\* entry alone.
lookupSetFresh(lookup, key, data) == [k \in {key} |-> data]

\* A bug blockModelLookup.set could have: every entry ends up holding the
\* data of the latest one.
lookupSetShared(lookup, key, data) == [k \in DOMAIN lookup \cup {key} |-> data]

\* blockModelLookup.set(key, data).
lookupSet(lookup, key, data) ==
    [k \in DOMAIN lookup \cup {key} |-> IF k = key THEN data ELSE lookup[k]]

\* A bug the translation could have: the half-cell offset is left out.
translation2NoHalf(dim, coord) == -dim + 2 * coord

\* Twice the offset computeSchematicMesh adds to a mesh position along one
\* axis, (-dim / 2 + 0.5) + coord: positions are kept doubled so that they
\* stay integers.
translation2(dim, coord) == -dim + 1 + 2 * coord

\* The structures a session is shown.
SchemA == Schem(2, 1, 1, <<Stone, StairsFH>>, <<1, 2>>)
SchemB == Schem(1, 2, 1, <<Air, Unknown, StairsHF>>, <<2, 3>>)
SchemEmpty == Schem(0, 0, 0, <<>>, <<>>)
Structures == {SchemA, SchemB, SchemEmpty}
\* The schematic renderSchematic is given.
InitialSchematic == SchemA
\* An input parseNbt / loadSchematic rejects.
Malformed == Schem(-1, -1, -1, <<>>, <<>>)


\* The grids the culling specification draws: sides of 1, 2 and MaxDim,
\* filled with one kind of cell (stone, glass or a block without a model),
\* one cell replaced by any kind (0: no block).
CullPalette == <<Stone, Glass, Unknown, Air>>
CullSides == {1, 2, MaxDim}
CullGrids ==
    { Schem(t[1], t[2], t[3], CullPalette,
            [i \in 1..(t[1] * t[2] * t[3]) |->
                IF i = t[6] THEN t[5] ELSE t[4]]) :
        t \in { u \in CullSides \X CullSides \X CullSides
                      \X (1..3) \X (0..Len(CullPalette))
                      \X (1..(MaxDim * MaxDim * MaxDim)) :
                  u[6] <= u[1] * u[2] * u[3] } }

\* ------------------------------------------------------------------- state
VARIABLES
    calls,             \* 0: renderSchematic's own load; 1..MaxSwaps: swaps
    issued,            \* number of swapSchematic calls issued
    blockModelLookup,  \* the lookup cache: key -> BlockModelData
    modelCache,        \* keys of the model loader's geometry cache
    sceneMeshes,       \* block fragments in scene.meshes
    ground,            \* ground meshes in scene.meshes: twice their y
    renderLoopActive,  \* engine.runRenderLoop(render) is in effect
    hasDestroyed,
    disableAutoRender, \* the option of the same name
    firstIsInstance,   \* getModel returns an instance on a cache miss too
    resolveCount,      \* key -> completed resolutions of that key
    overlapped,        \* a swap was started while another was in flight
    frame              \* what drove the last frame scene.render() drew

VARIABLES
    zip,               \* the archives, in list order: path -> content
    zipIsArray,        \* loadZip was given an array of urls
    stringCache,       \* path -> string or Absent
    blobCache,         \* path -> object url or Absent
    reqs,              \* the getResourceBlob / getResourceString calls
    nreq,              \* number of calls issued
    urlCount,          \* object urls created by URL.createObjectURL
    settled            \* <<kind, path>> -> results resolved since the clear

svars ==
    <<calls, issued, blockModelLookup, modelCache, sceneMeshes, ground,
      renderLoopActive, hasDestroyed, disableAutoRender, firstIsInstance,
      resolveCount, overlapped, frame>>
lvars ==
    <<zip, zipIsArray, stringCache, blobCache, reqs, nreq, urlCount, settled>>
vars == <<svars, lvars>>

CallIds == 0..MaxSwaps
InFlightPcs == {"populating", "populated", "assembling", "assembled"}
InFlight(c) == calls[c].pc \in InFlightPcs

\* A call of renderSchematic or swapSchematic: where it is suspended, the
\* schematic it loaded, the block type being resolved and the voxel being
\* materialized.
Call(pc, s, ti, vi, err) ==
    [pc |-> pc, schem |-> s, ti |-> ti, vi |-> vi, err |-> err]
Unissued == Call("unissued", SchemEmpty, 0, 0, "none")

\* A bug updateBlockModelLookup could have: it returns after the first
\* resolution instead of awaiting the remaining block types.
PopulateFirstOnly(s, lookup, from) ==
    LET ti == NextType(s, lookup, from)
    IN IF from = 1 /\ ti <= Len(s.blockTypes)
       THEN Call("populating", s, ti, 0, "none")
       ELSE Call("populated", s, Len(s.blockTypes) + 1, 0, "none")

\* updateBlockModelLookup runs from block type index from to its next
\* await, or returns.
Populate(s, lookup, from) ==
    LET ti == NextType(s, lookup, from)
    IN IF ti <= Len(s.blockTypes) THEN Call("populating", s, ti, 0, "none")
       ELSE Call("populated", s, ti, 0, "none")

\* computeSchematicMesh runs from voxel index from to its next await, or
\* returns.
Assemble(s, lookup, from) ==
    LET vi == NextVoxel(s, lookup, from)
    IN IF vi <= Volume(s)
       THEN Call("assembling", s, Len(s.blockTypes) + 1, vi, "none")
       ELSE Call("assembled", s, Len(s.blockTypes) + 1, vi, "none")

\* The lookup cache once updateBlockModelLookup(s) has completed from empty.
PopulatedLookup(s) ==
    LET ks == {i \in 1..Len(s.blockTypes) :
                 /\ s.blockTypes[i].type \notin INVISIBLE_BLOCKS
                 /\ getBlockModelData(s.blockTypes[i]).models # <<>>}
    IN [k \in {hashBlockForMap(s.blockTypes[i]) : i \in ks} |->
          getBlockModelData(
              s.blockTypes[CHOOSE i \in ks :
                               hashBlockForMap(s.blockTypes[i]) = k])]

LoaderIdle ==
    /\ zip = <<>>
    /\ zipIsArray = TRUE
    /\ stringCache = <<>>
    /\ blobCache = <<>>
    /\ reqs = <<>>
    /\ nreq = 0
    /\ urlCount = 0
    /\ settled = <<>>

SessionStart(s, lookup, first, options) ==
    /\ calls = [c \in CallIds |-> IF c = 0 THEN first ELSE Unissued]
    /\ issued = 0
    /\ blockModelLookup = lookup
    /\ modelCache = {}
    /\ sceneMeshes = {}
    /\ ground = <<>>
    /\ renderLoopActive = FALSE
    /\ hasDestroyed = FALSE
    /\ disableAutoRender \in options
    /\ firstIsInstance \in options
    /\ resolveCount = <<>>
    /\ overlapped = FALSE
    /\ frame = "none"

\* renderSchematic has parsed its schematic, built the loaders and entered
\* updateBlockModelLookup.
Init ==
    /\ SessionStart(InitialSchematic, <<>>,
                    Populate(InitialSchematic, <<>>, 1), BOOLEAN)
    /\ LoaderIdle

\* ---------------------------------------------------------------- session
\* A swap is between removing the old fragments and the return of its
\* computeSchematicMesh.
HalfBuilt ==
    \E c \in 1..MaxSwaps : calls[c].pc \in {"populating", "populated", "assembling"}

\* loadBlockStateDefinition resolves for the block type a call waits on;
\* the loop of updateBlockModelLookup goes on to its next await.
Resolve(c) ==
    /\ calls[c].pc = "populating"
    /\ LET s == calls[c].schem
           block == s.blockTypes[calls[c].ti]
           key == hashBlockForMap(block)
           data == getBlockModelData(block)
           lookup == IF data.models = <<>> THEN blockModelLookup
                     ELSE lookupSet(blockModelLookup, key, data)
       IN /\ blockModelLookup' = lookup
          /\ resolveCount' =
                [k \in DOMAIN resolveCount \cup {key} |->
                    IF k = key
                    THEN (IF k \in DOMAIN resolveCount
                          THEN resolveCount[k] ELSE 0) + 1
                    ELSE resolveCount[k]]
          /\ calls' = [calls EXCEPT ![c] = Populate(s, lookup, calls[c].ti + 1)]
    /\ UNCHANGED <<issued, modelCache, sceneMeshes, ground, renderLoopActive,
                   hasDestroyed, disableAutoRender, firstIsInstance, overlapped, frame>>
    /\ UNCHANGED lvars

\* A bug updateBlockModelLookup could have: a placeholder entry is set before
\* the await and is left behind when loadBlockStateDefinition rejects.
ResolveFailsPartial(c) ==
    /\ calls[c].pc = "populating"
    /\ calls' = [calls EXCEPT ![c].pc = "failed", ![c].err = "resolve"]
    /\ blockModelLookup' =
           lookupSet(blockModelLookup,
                     hashBlockForMap(calls[c].schem.blockTypes[calls[c].ti]),
                     [models |-> <<>>])
    /\ UNCHANGED <<issued, modelCache, sceneMeshes, ground,
                   renderLoopActive, hasDestroyed, disableAutoRender,
                   firstIsInstance, resolveCount, overlapped, frame>>
    /\ UNCHANGED lvars

\* loadBlockStateDefinition rejects: updateBlockModelLookup and its caller
\* reject.
ResolveFails(c) ==
    /\ calls[c].pc = "populating"
    /\ calls' = [calls EXCEPT ![c].pc = "failed", ![c].err = "resolve"]
    /\ UNCHANGED <<issued, blockModelLookup, modelCache, sceneMeshes, ground,
                   renderLoopActive, hasDestroyed, disableAutoRender,
                   firstIsInstance, resolveCount, overlapped, frame>>
    /\ UNCHANGED lvars

\* The caller of updateBlockModelLookup resumes. renderSchematic sets the
\* scene up, adds the grid and starts the render loop; both callers enter
\* computeSchematicMesh.
BeginAssemble(c) ==
    /\ calls[c].pc = "populated"
    /\ calls' = [calls EXCEPT
                    ![c] = Assemble(calls[c].schem, blockModelLookup, 1)]
    /\ IF c = 0
       THEN /\ ground' = << -calls[c].schem.height >>
            /\ renderLoopActive' = ~disableAutoRender
       ELSE UNCHANGED <<ground, renderLoopActive>>
    /\ UNCHANGED <<issued, blockModelLookup, modelCache, sceneMeshes,
                   hasDestroyed, disableAutoRender, firstIsInstance,
                   resolveCount, overlapped, frame>>
    /\ UNCHANGED lvars

\* getModel resolves for the voxel a call waits on: its meshes are placed
\* and added to the scene, and the loop goes on to its next await.
Materialize(c) ==
    /\ calls[c].pc = "assembling"
    /\ LET s == calls[c].schem
           vi == calls[c].vi
           block == getBlock(s, PosOf(s, vi))
           key == hashBlockForMap(block)
           option == blockModelLookup[key].models[1]
           inst == IF key \in modelCache THEN TRUE ELSE firstIsInstance
       IN /\ modelCache' = modelCache \cup {key}
          /\ sceneMeshes' = sceneMeshes \cup
                { [by |-> c, pos |-> vi, model |-> option.model,
                   instanced |-> inst, gen |-> issued,
                   at |-> [x |-> translation2(s.width, PosOf(s, vi).x),
                           y |-> translation2(s.height, PosOf(s, vi).y),
                           z |-> translation2(s.length, PosOf(s, vi).z)]] }
          /\ calls' = [calls EXCEPT ![c] = Assemble(s, blockModelLookup, vi + 1)]
    /\ UNCHANGED <<issued, blockModelLookup, ground, renderLoopActive,
                   hasDestroyed, disableAutoRender, firstIsInstance,
                   resolveCount, overlapped, frame>>
    /\ UNCHANGED lvars

\* The caller of computeSchematicMesh resumes and runs to its end: a swap
\* registers the render loop, renderSchematic returns the handles.
FinishCall(c) ==
    /\ calls[c].pc = "assembled"
    /\ calls' = [calls EXCEPT ![c].pc = "done"]
    /\ renderLoopActive' = IF c = 0 THEN renderLoopActive ELSE TRUE
    /\ UNCHANGED <<issued, blockModelLookup, modelCache, sceneMeshes, ground,
                   hasDestroyed, disableAutoRender, firstIsInstance,
                   resolveCount, overlapped, frame>>
    /\ UNCHANGED lvars

\* swapSchematic(input), up to its first await: the instanced meshes are
\* removed and disposed, the geometry cache is cleared, the input is parsed,
\* the ground is replaced and updateBlockModelLookup is entered.
SwapStart(input) ==
    /\ calls[0].pc = "done"
    /\ issued < MaxSwaps
    /\ issued' = issued + 1
    /\ sceneMeshes' = {m \in sceneMeshes : ~m.instanced}
    /\ modelCache' = {}
    /\ IF input = Malformed
       THEN /\ calls' = [calls EXCEPT
                            ![issued + 1] = Call("failed", input, 0, 0, "parse")]
            /\ ground' = ground
       ELSE IF ground = <<>>
       THEN /\ calls' = [calls EXCEPT
                            ![issued + 1] = Call("failed", input, 0, 0, "type")]
            /\ ground' = ground
       ELSE /\ calls' = [calls EXCEPT
                            ![issued + 1] = Populate(input, blockModelLookup, 1)]
            /\ ground' = Append(Tail(ground), -input.height)
    /\ overlapped' = (overlapped \/ \E c \in 1..MaxSwaps : InFlight(c))
    /\ UNCHANGED <<blockModelLookup, renderLoopActive, hasDestroyed,
                   disableAutoRender, firstIsInstance, resolveCount, frame>>
    /\ UNCHANGED lvars

\* destroy(): engine.dispose() stops the render loop and disposes the scene
\* with its meshes.
Destroy ==
    /\ calls[0].pc = "done"
    /\ hasDestroyed' = TRUE
    /\ renderLoopActive' = FALSE
    /\ sceneMeshes' = {}
    /\ ground' = <<>>
    /\ UNCHANGED <<calls, issued, blockModelLookup, modelCache,
                   disableAutoRender, firstIsInstance, resolveCount, overlapped, frame>>
    /\ UNCHANGED lvars

\* render(), called by driver by ("loop": the engine's render loop, "call":
\* the handle).
render(by) ==
    /\ ~hasDestroyed
    /\ frame' = by
    /\ UNCHANGED <<calls, issued, blockModelLookup, modelCache, sceneMeshes,
                   ground, renderLoopActive, hasDestroyed, disableAutoRender,
                   firstIsInstance, resolveCount, overlapped>>
    /\ UNCHANGED lvars

RenderLoopFrame ==
    /\ renderLoopActive
    /\ render("loop")

RenderCall ==
    /\ calls[0].pc = "done"
    /\ render("call")

Next ==
    \/ \E c \in CallIds : Resolve(c)
    \/ \E c \in CallIds : ResolveFails(c)
    \/ \E c \in CallIds : BeginAssemble(c)
    \/ \E c \in CallIds : Materialize(c)
    \/ \E c \in CallIds : FinishCall(c)
    \/ \E input \in Structures \cup {Malformed} : SwapStart(input)
    \/ Destroy
    \/ RenderLoopFrame
    \/ RenderCall

Spec == Init /\ [][Next]_vars

\* ---------------------------------------------------------------- culling
\* renderSchematic has populated the lookup cache for a grid and is about
\* to enter computeSchematicMesh.
InitCull ==
    /\ \E s \in CullGrids :
          SessionStart(s, PopulatedLookup(s),
                       Call("populated", s, Len(s.blockTypes) + 1, 0, "none"),
                       {FALSE})
    /\ LoaderIdle

NextCull ==
    \/ \E c \in CallIds : BeginAssemble(c)
    \/ \E c \in CallIds : Materialize(c)
    \/ \E c \in CallIds : FinishCall(c)

SpecCull == InitCull /\ [][NextCull]_vars

\* --------------------------------------------------------- resource loader
\* A result of the loader, or the data of an archive entry: undefined, a
\* decoded string, a Blob, or the object url of a Blob. from is the place in
\* the archive list of the entry it came from, id tells object urls apart.
Value(tag, text, from, id) == [tag |-> tag, text |-> text, from |-> from, id |-> id]
Undefined == Value("undefined", "", 0, 0)

Paths == {"blockstates/stone.json", "textures/block/stone.png"}
\* An archive: path -> content, or NoFile where it does not define the path.
NoFile == "<no file>"
Archives ==
    { [p \in Paths |-> IF p = "blockstates/stone.json" THEN e1 ELSE e2] :
        e1 \in {NoFile, "", "{}"}, e2 \in {NoFile, "png"} }
ArchiveLists ==
    UNION { [1..n -> Archives] : n \in 1..MaxArchives }

\* zipFile.file(`assets/minecraft/${name}`)?.async(kind) on the archive at
\* place i of the list.
readEntry(i, kind, name) ==
    IF zip[i][name] = NoFile THEN Undefined
    ELSE Value(kind, zip[i][name], i, 0)

\* if (data): undefined and the empty string are falsy, a Blob is truthy.
truthy(data) ==
    /\ data.tag # "undefined"
    /\ ~(data.tag = "string" /\ data.text = "")

\* A call of getResourceBlob or getResourceString: the archive it awaits,
\* its result, the archive entries it has read, and the results that calls
\* for the same table and path had resolved with when it was issued.
Req(kind, name, pc, i, result, reads, prior) ==
    [kind |-> kind, name |-> name, pc |-> pc, i |-> i, result |-> result,
     reads |-> reads, prior |-> prior]

Settled(kind, name) ==
    IF <<kind, name>> \in DOMAIN settled THEN settled[<<kind, name>>] ELSE {}

\* Map.set(name, value).
cacheSet(cache, name, value) ==
    [n \in DOMAIN cache \cup {name} |-> IF n = name THEN value ELSE cache[n]]

SessionIdle ==
    /\ calls = [c \in CallIds |-> Unissued]
    /\ issued = 0
    /\ blockModelLookup = <<>>
    /\ modelCache = {}
    /\ sceneMeshes = {}
    /\ ground = <<>>
    /\ renderLoopActive = FALSE
    /\ hasDestroyed = FALSE
    /\ disableAutoRender = FALSE
    /\ firstIsInstance = FALSE
    /\ resolveCount = <<>>
    /\ overlapped = FALSE
    /\ frame = "none"

\* getResourceLoader has loaded its archives; both tables are empty.
InitLoader ==
    /\ SessionIdle
    /\ zip \in ArchiveLists
    /\ zipIsArray \in (IF Len(zip) = 1 THEN BOOLEAN ELSE {TRUE})
    /\ stringCache = <<>>
    /\ blobCache = <<>>
    /\ reqs = <<>>
    /\ nreq = 0
    /\ urlCount = 0
    /\ settled = <<>>

Settle(kind, name, result) ==
    settled' = [k \in DOMAIN settled \cup {<<kind, name>>} |->
                   IF k = <<kind, name>> THEN Settled(kind, name) \cup {result}
                   ELSE settled[k]]

\* getResourceBlob(name) or getResourceString(name) is called: a path its
\* table has is answered from the table, any other goes to the archives.
GetResource(kind, name) ==
    /\ nreq < MaxCalls
    /\ nreq' = nreq + 1
    /\ LET cache == IF kind = "blob" THEN blobCache ELSE stringCache
       IN IF name \in DOMAIN cache
          THEN /\ reqs' = Append(reqs, Req(kind, name, "done", 0, cache[name],
                                          0, Settled(kind, name)))
               /\ Settle(kind, name, cache[name])
          ELSE /\ reqs' = Append(reqs, Req(kind, name, "reading", 1, Undefined,
                                          0, Settled(kind, name)))
               /\ UNCHANGED settled
    /\ UNCHANGED <<zip, zipIsArray, stringCache, blobCache, urlCount>>
    /\ UNCHANGED svars

\* The read of one archive entry resolves. The loop over the archives goes
\* on to the next archive while the data is falsy; at its end the result is
\* stored in the table and returned.
ReadArchive(r) ==
    /\ reqs[r].pc = "reading"
    /\ LET q == reqs[r]
           data == readEntry(q.i, q.kind, q.name)
           last == ~zipIsArray \/ truthy(data) \/ q.i = Len(zip)
           url == Value("url", data.text, data.from, urlCount + 1)
           result == IF q.kind = "blob" /\ truthy(data) THEN url ELSE data
       IN IF ~last
          THEN /\ reqs' = [reqs EXCEPT ![r].i = q.i + 1, ![r].reads = q.reads + 1]
               /\ UNCHANGED <<stringCache, blobCache, urlCount, settled>>
          ELSE /\ reqs' = [reqs EXCEPT ![r].pc = "done", ![r].result = result,
                                      ![r].reads = q.reads + 1]
               /\ urlCount' = IF result.tag = "url" THEN urlCount + 1 ELSE urlCount
               /\ IF q.kind = "blob"
                  THEN /\ blobCache' = cacheSet(blobCache, q.name, result)
                       /\ UNCHANGED stringCache
                  ELSE /\ stringCache' = cacheSet(stringCache, q.name, result)
                       /\ UNCHANGED blobCache
               /\ Settle(q.kind, q.name, result)
    /\ UNCHANGED <<zip, zipIsArray, nreq>>
    /\ UNCHANGED svars

\* clearCache().
ClearCache ==
    /\ stringCache' = <<>>
    /\ blobCache' = <<>>
    /\ settled' = <<>>
    /\ UNCHANGED <<zip, zipIsArray, reqs, nreq, urlCount>>
    /\ UNCHANGED svars

NextLoader ==
    \/ \E kind \in {"blob", "string"}, name \in Paths : GetResource(kind, name)
    \/ \E r \in DOMAIN reqs : ReadArchive(r)
    \/ ClearCache

SpecLoader == InitLoader /\ [][NextLoader]_vars

\* ------------------------------------------------------------------ claims
\* The terms of the claims, stated without the operators of the code.
SixNeighbours(p) ==
    { [x |-> p.x + 1, y |-> p.y, z |-> p.z], [x |-> p.x - 1, y |-> p.y, z |-> p.z],
      [x |-> p.x, y |-> p.y + 1, z |-> p.z], [x |-> p.x, y |-> p.y - 1, z |-> p.z],
      [x |-> p.x, y |-> p.y, z |-> p.z + 1], [x |-> p.x, y |-> p.y, z |-> p.z - 1] }

CellAt(s, q) == s.blocks[q.x + q.z * s.width + q.y * s.width * s.length + 1]

\* A neighbour position is exposing: outside the grid, holding no block, or
\* holding a block of a non-occluding type.
Exposing(s, q) ==
    \/ q.x < 0 \/ q.x >= s.width
    \/ q.y < 0 \/ q.y >= s.height
    \/ q.z < 0 \/ q.z >= s.length
    \/ CellAt(s, q) = 0
    \/ s.blockTypes[CellAt(s, q)].type \in NON_OCCLUDING_BLOCKS

Exposed(s, i) == \E q \in SixNeighbours(PosOf(s, i)) : Exposing(s, q)

\* The voxel at index i holds a block that is not of a fully-invisible type.
HoldsVisibleType(s, i) ==
    /\ s.blocks[i] # 0
    /\ s.blockTypes[s.blocks[i]].type \notin INVISIBLE_BLOCKS

HasGeometry(c, i) == \E m \in sceneMeshes : m.by = c /\ m.pos = i

\* The voxels the assembly of call c has gone past.
Visited(c) ==
    IF calls[c].pc = "assembling" THEN 1..(calls[c].vi - 1)
    ELSE IF calls[c].pc \in {"assembled", "done"} THEN 1..Volume(calls[c].schem)
    ELSE {}

\* The fragments of the visible voxels of s: <<voxel, model>>.
VisibleFragments(s) ==
    { <<i, s.blockTypes[s.blocks[i]].type>> :
        i \in { j \in 1..Volume(s) :
                  /\ HoldsVisibleType(s, j)
                  /\ s.blockTypes[s.blocks[j]].type \notin NoModelTypes
                  /\ Exposed(s, j) } }

SwapsInFlight == {c \in 1..MaxSwaps : InFlight(c)}

\* C1 (as claimed): once a swap has completed, no swap having run while
\* another was in flight and the session not destroyed, the block fragments
\* in the scene are
\* exactly those of the new structure's visible voxels, each once, all of
\* them added by that swap.
C1_SwapReplacesFragments ==
    \A c \in 1..MaxSwaps :
        (/\ c = issued
         /\ calls[c].pc = "done"
         /\ ~overlapped
         /\ ~hasDestroyed)
        => /\ {<<m.pos, m.model>> : m \in sceneMeshes} = VisibleFragments(calls[c].schem)
           /\ Cardinality(sceneMeshes) = Cardinality(VisibleFragments(calls[c].schem))
           /\ \A m \in sceneMeshes : m.by = c

\* C2 (as claimed): at no time are two swaps both between their start and
\* their end, populating the lookup cache or assembling the scene.
C2_SwapsSerialized == Cardinality(SwapsInFlight) <= 1

\* C3 (as claimed): once destroy() has run, no step changes the meshes of
\* the scene, starts the render loop, draws a frame or raises a fault.
C3_DestroyedIsTerminal ==
    [][hasDestroyed =>
          /\ sceneMeshes' = sceneMeshes
          /\ ground' = ground
          /\ renderLoopActive' = renderLoopActive
          /\ frame' = frame
          /\ \A c \in CallIds : calls'[c].err = "type" => calls[c].err = "type"]_vars

\* C4 (as claimed): over a sequence of loads, none started while another
\* was in flight, no BlockVisualKey has been resolved more than once.
C4_ResolvedAtMostOnce ==
    ~overlapped
    => \A k \in DOMAIN resolveCount : resolveCount[k] <= 1

\* C5 (as claimed): a visited voxel holding a block that is not of a
\* fully-invisible type has geometry if and only if one of its 6 neighbour
\* positions is exposing.
C5_GeometryIffExposed ==
    \A i \in Visited(0) :
        HoldsVisibleType(calls[0].schem, i)
        => (HasGeometry(0, i) <=> Exposed(calls[0].schem, i))

\* C5 (amended): a visited voxel holding a block that is not of a
\* fully-invisible type and whose key has an entry in the lookup cache has
\* geometry if and only if one of its 6 neighbour positions is exposing; a
\* voxel whose key has no entry has none.
C5_GeometryIffExposedAndResolved ==
    \A i \in Visited(0) :
        LET s == calls[0].schem
        IN HoldsVisibleType(s, i)
           => IF hashBlockForMap(s.blockTypes[s.blocks[i]])
                    \notin DOMAIN blockModelLookup
              THEN ~HasGeometry(0, i)
              ELSE HasGeometry(0, i) <=> Exposed(s, i)

\* C5 witness: a 3 x 3 x 3 grid of stone is assembled; the enclosed centre
\* voxel has no geometry and the corner voxel has.
C5_Witness ==
    /\ calls[0].pc = "done"
    /\ calls[0].schem.width = 3 /\ calls[0].schem.height = 3
    /\ calls[0].schem.length = 3
    /\ \A i \in 1..27 : calls[0].schem.blocks[i] = 1
    /\ ~Exposed(calls[0].schem, 14)
    /\ ~HasGeometry(0, 14)
    /\ HasGeometry(0, 1)

\* C6 (as claimed): a resolved call returns the entry of the first archive
\* in list order that defines the path, whatever its content, and absent
\* only when no archive defines the path.
C6_FirstArchiveWins ==
    \A r \in DOMAIN reqs :
        reqs[r].pc = "done"
        => LET defining == {i \in DOMAIN zip : zip[i][reqs[r].name] # NoFile}
               first == CHOOSE i \in defining : \A j \in defining : i <= j
           IN IF defining = {} THEN reqs[r].result = Undefined
              ELSE /\ reqs[r].result # Undefined
                   /\ reqs[r].result.text = zip[first][reqs[r].name]

\* Two blocks of the same type and the same property mapping.
SameBlock(b1, b2) == b1.type = b2.type /\ PropMap(b1) = PropMap(b2)

\* The blocks of the schematics loaded so far that have a lookup entry.
ResolvedBlocks ==
    { b \in UNION { {calls[c].schem.blockTypes[i] :
                        i \in 1..Len(calls[c].schem.blockTypes)} :
                    c \in {d \in CallIds : calls[d].pc # "unissued"} } :
        hashBlockForMap(b) \in DOMAIN blockModelLookup }

\* C7 (as claimed): blocks of the same type and property mapping have the
\* same key, so the lookup cache holds one entry for them.
C7_KeyIgnoresPropertyOrder ==
    \A b1, b2 \in ResolvedBlocks :
        SameBlock(b1, b2) => hashBlockForMap(b1) = hashBlockForMap(b2)

\* C8 (as claimed): no two calls for the same table and path are reading
\* the archives at the same time.
C8_SingleFlightPerPath ==
    \A a, b \in DOMAIN reqs :
        (/\ a # b
         /\ reqs[a].kind = reqs[b].kind
         /\ reqs[a].name = reqs[b].name
         /\ reqs[a].pc = "reading")
        => reqs[b].pc # "reading"

\* C9 (as claimed): a call issued after a call for the same table and path
\* has resolved, with no clearCache() since, returns that same result and
\* reads no archive.
C9_ResolvedPathIsStable ==
    \A r \in DOMAIN reqs :
        (reqs[r].pc = "done" /\ reqs[r].prior # {})
        => /\ reqs[r].prior = {reqs[r].result}
           /\ reqs[r].reads = 0

\* C10: no step removes an entry of the lookup cache or replaces its value.
C10_LookupOnlyGrows ==
    [][\A k \in DOMAIN blockModelLookup :
          /\ k \in DOMAIN blockModelLookup'
          /\ blockModelLookup'[k] = blockModelLookup[k]]_vars

\* C10 witness: after a failed swap, a completed swap that cleared the
\* geometry cache and a destroy(), the lookup cache holds the entries of
\* both structures.
C10_Witness ==
    /\ hasDestroyed
    /\ \E c, d \in 1..MaxSwaps : calls[c].pc = "failed" /\ calls[d].pc = "done"
    /\ \A s \in {SchemA, SchemB} :
          \A k \in DOMAIN PopulatedLookup(s) : k \in DOMAIN blockModelLookup

\* C12: every fragment in the scene sits at (x - width / 2 + 0.5,
\* y - height / 2 + 0.5, z - length / 2 + 0.5) for its voxel (x, y, z) and the
\* dimensions of the structure whose assembly added it; at has twice these.
C12_TranslatedByStructureDimensions ==
    \A m \in sceneMeshes :
        LET s == calls[m.by].schem
            p == PosOf(s, m.pos)
        IN /\ m.at.x + s.width = 2 * p.x + 1
           /\ m.at.y + s.height = 2 * p.y + 1
           /\ m.at.z + s.length = 2 * p.z + 1

\* C12: the two blocks of the 2 x 1 x 1 structure are at x = -0.5 and
\* x = 0.5, and a swap to the 1 x 2 x 1 structure has put a block at y = 0.5.
C12_Witness ==
    /\ \E m \in sceneMeshes :
           m.by = 0 /\ m.pos = 1 /\ m.at = [x |-> -1, y |-> 0, z |-> 0]
    /\ \E m \in sceneMeshes :
           m.by = 0 /\ m.pos = 2 /\ m.at = [x |-> 1, y |-> 0, z |-> 0]
    /\ \E m \in sceneMeshes :
           /\ m.by > 0 /\ calls[m.by].schem = SchemB
           /\ m.pos = 2 /\ m.at = [x |-> 0, y |-> 1, z |-> 0]

\* C13 (as claimed): once updateBlockModelLookup has completed for a
\* structure, every non-invisible block type of that structure has an entry in
\* the lookup cache.
C13_EveryVisibleTypeHasEntry ==
    \A c \in CallIds :
        calls[c].pc \in {"populated", "assembling", "assembled", "done"} =>
            \A i \in 1..Len(calls[c].schem.blockTypes) :
                LET block == calls[c].schem.blockTypes[i]
                IN block.type \notin INVISIBLE_BLOCKS =>
                       hashBlockForMap(block) \in DOMAIN blockModelLookup

\* C14: while updateBlockModelLookup of a call has not completed, no voxel of
\* that call's structure has been visited; once its assembly has begun, every
\* non-invisible block type of its structure has had a resolution complete.
C14_PopulationBeforeAssembly ==
    \A c \in CallIds :
        /\ calls[c].pc \in {"unissued", "populating", "populated", "failed"} =>
               /\ calls[c].vi = 0
               /\ \A m \in sceneMeshes : m.by # c
        /\ calls[c].pc \in {"assembling", "assembled", "done"} =>
               \A i \in 1..Len(calls[c].schem.blockTypes) :
                   LET block == calls[c].schem.blockTypes[i]
                   IN block.type \notin INVISIBLE_BLOCKS =>
                          /\ hashBlockForMap(block) \in DOMAIN resolveCount
                          /\ resolveCount[hashBlockForMap(block)] >= 1

\* C14: a swap to the 1 x 2 x 1 structure is in the middle of its assembly,
\* after the resolutions its population awaited.
C14_Witness ==
    \E c \in 1..MaxSwaps :
        /\ calls[c].pc = "assembling"
        /\ calls[c].schem = SchemB
        /\ hashBlockForMap(StairsHF) \in DOMAIN blockModelLookup
        /\ hashBlockForMap(Unknown) \in DOMAIN resolveCount

\* C15 (as claimed): every fragment in the scene derives from a template
\* created after the most recent clear of the geometry cache; gen is the number
\* of clears that preceded the fragment, issued the number of clears so far.
C15_FragmentsPostdateLastClear ==
    \A m \in sceneMeshes : m.gen = issued

\* C16: every fragment in the scene belongs to a voxel whose key has an entry
\* in the lookup cache, that entry is the model data a completed resolution of
\* the voxel's block produced, and the fragment shows that entry's model.
C16_FragmentsHaveLookupEntry ==
    \A m \in sceneMeshes :
        LET s == calls[m.by].schem
            block == getBlock(s, PosOf(s, m.pos))
            key == hashBlockForMap(block)
        IN /\ block # NoBlock
           /\ key \in DOMAIN blockModelLookup
           /\ key \in DOMAIN resolveCount
           /\ blockModelLookup[key] = getBlockModelData(block)
           /\ blockModelLookup[key].models # <<>>
           /\ m.model = blockModelLookup[key].models[1].model

\* C16: an assembly has passed a voxel whose key has no entry and added no
\* fragment for it, and has added a fragment for a voxel whose key has one.
C16_Witness ==
    \E c \in 1..MaxSwaps :
        /\ calls[c].pc = "done"
        /\ calls[c].schem = SchemB
        /\ hashBlockForMap(Unknown) \notin DOMAIN blockModelLookup
        /\ \A m \in sceneMeshes : ~(m.by = c /\ m.pos = 1)
        /\ \E m \in sceneMeshes :
               m.by = c /\ m.pos = 2 /\ m.model = "oak_stairs"

\* C17: when a resolution rejects, the call fails and the step leaves the
\* lookup cache as it was; a failed call stays failed.
C17_FailedResolveKeepsLookup ==
    [][\A c \in CallIds :
          /\ (calls[c].pc = "populating" /\ calls'[c].pc = "failed") =>
                 /\ calls'[c].err = "resolve"
                 /\ blockModelLookup' = blockModelLookup
          /\ calls[c].pc = "failed" => calls'[c] = calls[c]]_vars

\* C17: the initial load failed at its second block type, and the entry its
\* first resolution inserted is in the lookup cache.
C17_Witness ==
    /\ calls[0].pc = "failed"
    /\ calls[0].err = "resolve"
    /\ calls[0].ti = 2
    /\ DOMAIN blockModelLookup = {hashBlockForMap(Stone)}
    /\ blockModelLookup[hashBlockForMap(Stone)] = getBlockModelData(Stone)

\* C18 (as claimed): a swap whose input cannot be parsed leaves the resolution
\* counts, the lookup cache and the geometry cache as they were.
C18_ParseFailureTouchesNothing ==
    [][\A c \in CallIds :
          (calls[c].pc = "unissued" /\ calls'[c].pc = "failed"
              /\ calls'[c].err = "parse") =>
                 /\ resolveCount' = resolveCount
                 /\ blockModelLookup' = blockModelLookup
                 /\ modelCache' = modelCache]_vars

\* C19 (as claimed): from the construction of the scene until destroy() the
\* scene holds exactly one ground mesh, and when a swap completes the ground is
\* at y = -height / 2 of that swap's structure; ground has twice the y.
C19_OneGroundAtStructureHeight ==
    [][/\ (calls'[0].pc \in {"assembling", "assembled", "done"}
             /\ ~hasDestroyed') => Len(ground') = 1
       /\ \A c \in 1..MaxSwaps :
              (calls[c].pc = "assembled" /\ calls'[c].pc = "done"
                  /\ ~hasDestroyed') =>
                     ground' = << -calls[c].schem.height >>]_vars

\* C20 (as claimed): in a session constructed with disableAutoRender the
\* render loop is never started and no frame is drawn by it.
C20_DisabledAutoRenderStaysOff ==
    disableAutoRender => (~renderLoopActive /\ frame # "loop")

\* C11 (as claimed): no frame of the render loop is drawn while a swap is
\* between removing the old fragments and the return of its
\* computeSchematicMesh.
C11_NoLoopFrameWhileHalfBuilt ==
    [][(frame # "loop" /\ frame' = "loop") => ~HalfBuilt]_vars

====
